---- MODULE Spec2Model ----
(***************************************************************************)
(* Model of the oxylabs SDK clients of internal/internal.py:               *)
(*   - ClientAsync: the session life cycle (ensure_session, close) and the *)
(*     job workflow execute_with_timeout = get_job_id, poll_job_status,    *)
(*     get_http_resp, run by asyncio tasks that share one client;          *)
(*   - Client.req: the blocking single request.                            *)
(* The transport (aiohttp / requests and the backend behind them) is the   *)
(* environment: it answers every request in flight with any response or    *)
(* exception.  One action is the code a task runs between two awaits.      *)
(***************************************************************************)
EXTENDS Integers, Sequences, FiniteSets, TLC

VARIABLES
    session,    \* ClientAsync.session: 0 is None, n > 0 the n-th ClientSession
    closed,     \* the ClientSession objects whose close() has run
    created,    \* how many ClientSession objects were constructed
    closer,     \* position of the task running ClientAsync.close
    task,       \* per execute_with_timeout call: locals, position, history
    call,       \* the Client.req call: position, result, history
    scope,      \* the task inside "async with ClientAsync(...)": position
    conf,       \* the last prepare_config call: its kwargs and its result
    check       \* the last check_*_validity call: arguments and outcome

vars == <<session, closed, created, closer, task, call, scope, conf, check>>

----------------------------------------------------------------------------
(* Bounds of the model *)

\* polls one execution may issue before the model stops following it
MaxPolls == 3

\* ClientSession objects the model lets ensure_session construct
MaxSessions == 2

\* the integers callers pass as durations, limits and pages: -MaxInt..MaxInt
MaxInt == 2

\* the asyncio tasks that may call execute_with_timeout
Procs == {1, 2}

----------------------------------------------------------------------------
(* Python values *)

None == [py |-> "None"]

Num(n) == [py |-> "int", n |-> n]

Str(s) == [py |-> "str", s |-> s]

\* f"{x}" of a job id: None is rendered as the text None
format(x) == IF x = None THEN "None" ELSE x.s

base_url == "base"

\* job ids the backend hands out
JobIds == {Str("abc"), Str("xyz")}

\* the caller's job parameters
Payloads == {[source |-> "universal"]}

\* config as the caller passes it, in seconds; prepare_config sets a key
\* only when the caller names it, so either key may be absent
Configs ==
    [timeout : {1, 2}, poll_interval : {1, 2}]
        \cup {[timeout |-> 2], [poll_interval |-> 1]}

\* result documents of the backend
Results == {[result |-> 42], [result |-> 7]}

----------------------------------------------------------------------------
(* The transport's answers *)

\* a body that is no JSON document
NotJson == [notjson |-> TRUE]

HttpStatuses == {200, 201, 404, 500}

\* exceptions a request may end in instead of a response
ConnectionError == [exc |-> "connection"]

TimeoutError == [exc |-> "timeout"]

Exceptions == {ConnectionError, TimeoutError}

Responses(bodies) == [status : HttpStatuses, json : bodies \cup {NotJson}]

SubmitAnswers == Responses({[id |-> j] : j \in JobIds} \cup {[message |-> "accepted"]}) \cup Exceptions

PollAnswers ==
    Responses({[status |-> s] : s \in {"pending", "running", "done", "faulted"}}
              \cup {[message |-> "hello"]}) \cup Exceptions

FetchAnswers == Responses(Results) \cup Exceptions

IsException(a) == "exc" \in DOMAIN a

\* response.raise_for_status(): raises for status >= 400
raise_for_status(a) == a.status >= 400

\* what went wrong with an answered request, "none" when nothing did;
\* key is the field the code reads from the decoded body ("" when none)
Failure(a, key) ==
    IF IsException(a) THEN a.exc
    ELSE IF raise_for_status(a) THEN "http_status"
    ELSE IF a.json = NotJson THEN "malformed"
    ELSE IF key # "" /\ key \notin DOMAIN a.json THEN "malformed"
    ELSE "none"

----------------------------------------------------------------------------
(* Requests *)

Request(method, url, body) == [method |-> method, url |-> url, json |-> body]

IsSubmit(r) == r.method = "POST" /\ r.url = <<base_url>>

IsPoll(r) == r.method = "GET" /\ Len(r.url) = 2

IsFetch(r) == r.method = "GET" /\ Len(r.url) = 3

\* self.session can carry a request: it is a session and it is not closed
SessionUsable == session # 0 /\ session \notin closed

----------------------------------------------------------------------------
(* State after construction *)

NewTask ==
    [pc |-> "idle", config |-> None, job_id |-> None, result |-> None,
     raised |-> "none", inflight |-> {},
     nSubmit |-> 0, nPoll |-> 0, nFetch |-> 0, nSleep |-> 0, nPending |-> 0,
     handle |-> None, submitted |-> "unset", pollEnd |-> "unset",
     fetched |-> "unset", payload |-> None, cause |-> "none"]

NewScope ==
    [pc |-> "out", opened |-> 0, ended |-> "none", racing |-> FALSE]

\* a dict without keys
EmptyDict == [k \in {} |-> None]

NewConf == [called |-> FALSE, kwargs |-> EmptyDict, config |-> EmptyDict]

NewCheck == [fn |-> "none", arg |-> None, among |-> {}, raised |-> "none"]

NewCall ==
    [pc |-> "idle", method |-> "", result |-> None, raised |-> "none",
     nCalls |-> 0, cause |-> "none", answer |-> None]

Init ==
    /\ session = 0
    /\ closed = {}
    /\ created = 0
    /\ closer = "idle"
    /\ task = [p \in Procs |-> NewTask]
    /\ call = NewCall
    /\ scope = NewScope
    /\ conf = NewConf
    /\ check = NewCheck

----------------------------------------------------------------------------
(* ClientAsync: session life cycle *)

ensure_session ==
    /\ session = 0 \/ session \in closed
    /\ created < MaxSessions
    /\ created' = created + 1
    /\ session' = created + 1
    /\ UNCHANGED <<closed, closer, task, call, scope, conf, check>>

\* close up to the await of session.close(): the session is closed
close_begin ==
    /\ closer = "idle"
    /\ session # 0
    /\ closed' = closed \cup {session}
    /\ closer' = "awaiting"
    /\ UNCHANGED <<session, created, task, call, scope, conf, check>>

\* close after the await: self.session = None
close_end ==
    /\ closer = "awaiting"
    /\ session' = 0
    /\ closer' = "idle"
    /\ UNCHANGED <<closed, created, task, call, scope, conf, check>>

----------------------------------------------------------------------------
(* ClientAsync as a scoped resource: "async with client: body".  scope.pc  *)
(* is "out" before the statement, "body" inside it, "exiting" while        *)
(* __aexit__ awaits session.close(), "closed" after __aexit__ returned.    *)
(* History: opened  the session the client held when __aenter__ returned;  *)
(* ended  how the body was left; racing  a close() called by another task  *)
(* was suspended in its await when __aenter__ ran.                         *)

\* how the body of the statement is left
Endings == {"success", "failure", "cancelled"}

\* __aenter__: await self.ensure_session(); return self
aenter ==
    /\ scope.pc \in {"out", "closed"}
    /\ IF session = 0 \/ session \in closed
       THEN /\ created < MaxSessions
            /\ created' = created + 1
            /\ session' = created + 1
       ELSE UNCHANGED <<session, created>>
    /\ scope' = [pc |-> "body", opened |-> session', ended |-> "none",
                 racing |-> closer = "awaiting"]
    /\ UNCHANGED <<closed, closer, task, call, conf, check>>

\* an __aexit__ that releases the session only when the body succeeded
aexit_begin_on_success(ending) ==
    /\ scope.pc = "body"
    /\ IF session # 0 /\ ending = "success"
       THEN /\ closed' = closed \cup {session}
            /\ scope' = [scope EXCEPT !.pc = "exiting", !.ended = ending]
       ELSE /\ scope' = [scope EXCEPT !.pc = "closed", !.ended = ending]
            /\ UNCHANGED closed
    /\ UNCHANGED <<session, created, closer, task, call, conf, check>>

\* the body is left and __aexit__(exc_type, exc, tb) runs close() up to the
\* await of session.close(); with no session close() returns at once
aexit_begin(ending) ==
    /\ scope.pc = "body"
    /\ IF session # 0
       THEN /\ closed' = closed \cup {session}
            /\ scope' = [scope EXCEPT !.pc = "exiting", !.ended = ending]
       ELSE /\ scope' = [scope EXCEPT !.pc = "closed", !.ended = ending]
            /\ UNCHANGED closed
    /\ UNCHANGED <<session, created, closer, task, call, conf, check>>

\* __aexit__ after the await: self.session = None, and it returns
aexit_end ==
    /\ scope.pc = "exiting"
    /\ session' = 0
    /\ scope' = [scope EXCEPT !.pc = "closed"]
    /\ UNCHANGED <<closed, created, closer, task, call, conf, check>>

----------------------------------------------------------------------------
(* ClientAsync: the job workflow.  The operators below take the task's    *)
(* record t and give the record at the task's next await or return.       *)
(* Locals: config, job_id, result (the value returned), raised (the        *)
(* exception that left the call, "none" when it returned).  History:       *)
(*   nSubmit, nPoll, nFetch  requests issued; nSleep  sleeps completed;    *)
(*   nPending  polls answered with a status other than done and faulted;   *)
(*   submitted, fetched  "unset", "ok", "failed" (the transport's answer   *)
(*     was a failure), "unsent" (no usable session, nothing was sent);     *)
(*   pollEnd  "unset", "done", "faulted", "failed", "unsent";              *)
(*   handle  the id the submit answer carried; payload  the document the   *)
(*   fetch answer carried; cause  the first thing that went wrong.         *)

\* history: the first thing that went wrong in the execution
Fail(t, c) == IF t.cause = "none" THEN [t EXCEPT !.cause = c] ELSE t

\* execute_with_timeout returns v
Return(t, v) == [t EXCEPT !.pc = "done", !.result = v]

\* execute_with_timeout is left by exception e
Raise(t, e) == [t EXCEPT !.pc = "done", !.raised = e]

\* the job id kept on the shared client, where another call overwrites it
job_status_url_shared(p, t) ==
    LET others == {q \in Procs : q # p /\ task[q].job_id # None}
    IN  IF others = {} THEN <<base_url, format(t.job_id)>>
        ELSE <<base_url, format(task[CHOOSE q \in others : TRUE].job_id)>>

job_status_url(p, t) == <<base_url, format(t.job_id)>>

result_url(p, t) == <<base_url, format(t.job_id), "results">>

\* get_http_resp up to the await of session.get
get_http_resp_send(p, t) ==
    IF SessionUsable
    THEN [t EXCEPT !.pc = "fetch_wait",
                   !.inflight = @ \cup {Request("GET", result_url(p, t), None)},
                   !.nFetch = @ + 1]
    ELSE Return(Fail([t EXCEPT !.fetched = "unsent"], "no_session"), None)

\* poll_job_status has returned v: execute_with_timeout drops v and goes on
poll_job_status_return(p, t, v) == get_http_resp_send(p, t)

\* one turn of the loop of poll_job_status up to the await of session.get
poll_job_status_send(p, t) ==
    IF SessionUsable
    THEN [t EXCEPT !.pc = "poll_wait",
                   !.inflight = @ \cup {Request("GET", job_status_url(p, t), None)},
                   !.nPoll = @ + 1]
    ELSE poll_job_status_return(
             p, Fail([t EXCEPT !.pollEnd = "unsent"], "no_session"), None)

\* get_job_id has returned v: execute_with_timeout binds job_id, reads
\* config["poll_interval"] and polls
get_job_id_return(p, t, v) ==
    IF "poll_interval" \in DOMAIN t.config
    THEN poll_job_status_send(p, [t EXCEPT !.job_id = v])
    ELSE Raise(Fail([t EXCEPT !.job_id = v], "no_poll_interval"), "KeyError")

\* get_job_id started as a task of its own and not awaited
get_job_id_send_unawaited(p, t, payload) ==
    IF SessionUsable
    THEN get_job_id_return(
             p, [t EXCEPT !.inflight = @ \cup {Request("POST", <<base_url>>, payload)},
                          !.nSubmit = @ + 1], None)
    ELSE get_job_id_return(
             p, Fail([t EXCEPT !.submitted = "unsent"], "no_session"), None)

\* get_job_id letting the error of a missing session reach the caller
get_job_id_send_uncaught(p, t, payload) ==
    IF SessionUsable
    THEN [t EXCEPT !.pc = "submit_wait",
                   !.inflight = @ \cup {Request("POST", <<base_url>>, payload)},
                   !.nSubmit = @ + 1]
    ELSE Raise(Fail([t EXCEPT !.submitted = "unsent"], "no_session"),
               "AttributeError")

\* get_job_id up to the await of session.post
get_job_id_send(p, t, payload) ==
    IF SessionUsable
    THEN [t EXCEPT !.pc = "submit_wait",
                   !.inflight = @ \cup {Request("POST", <<base_url>>, payload)},
                   !.nSubmit = @ + 1]
    ELSE get_job_id_return(
             p, Fail([t EXCEPT !.submitted = "unsent"], "no_session"), None)

\* get_job_id posting again when the answer is a failure
get_job_id_recv_retrying(p, t, a) ==
    IF Failure(a, "id") = "none"
    THEN get_job_id_return(
             p, [t EXCEPT !.submitted = "ok", !.handle = a.json.id], a.json.id)
    ELSE get_job_id_send(p, t, CHOOSE payload \in Payloads : TRUE)

\* get_job_id from the answer to its return
get_job_id_recv(p, t, a) ==
    IF Failure(a, "id") = "none"
    THEN get_job_id_return(
             p, [t EXCEPT !.submitted = "ok", !.handle = a.json.id], a.json.id)
    ELSE get_job_id_return(
             p, Fail([t EXCEPT !.submitted = "failed"], Failure(a, "id")), None)

\* poll_job_status polling again at once, without the sleep
poll_job_status_recv_busy(p, t, a) ==
    IF Failure(a, "status") # "none"
    THEN poll_job_status_return(
             p, Fail([t EXCEPT !.pollEnd = "failed"], Failure(a, "status")), None)
    ELSE IF a.json.status = "done"
    THEN poll_job_status_return(p, [t EXCEPT !.pollEnd = "done"], TRUE)
    ELSE IF a.json.status = "faulted"
    THEN poll_job_status_return(
             p, Fail([t EXCEPT !.pollEnd = "faulted"], "faulted"), None)
    ELSE IF t.nPoll < MaxPolls
    THEN poll_job_status_send(p, [t EXCEPT !.nPending = @ + 1])
    ELSE [t EXCEPT !.pc = "sleep", !.nPending = @ + 1]

\* poll_job_status from the answer to the sleep or to its return
poll_job_status_recv(p, t, a) ==
    IF Failure(a, "status") # "none"
    THEN poll_job_status_return(
             p, Fail([t EXCEPT !.pollEnd = "failed"], Failure(a, "status")), None)
    ELSE IF a.json.status = "done"
    THEN poll_job_status_return(p, [t EXCEPT !.pollEnd = "done"], TRUE)
    ELSE IF a.json.status = "faulted"
    THEN poll_job_status_return(
             p, Fail([t EXCEPT !.pollEnd = "faulted"], "faulted"), None)
    ELSE [t EXCEPT !.pc = "sleep", !.nPending = @ + 1]

\* get_http_resp from the answer to the return of execute_with_timeout
get_http_resp_recv(p, t, a) ==
    IF Failure(a, "") = "none"
    THEN Return([t EXCEPT !.fetched = "ok", !.payload = a.json], a.json)
    ELSE Return(Fail([t EXCEPT !.fetched = "failed"], Failure(a, "")), None)

\* the request of task record t that is answered (the one it awaits)
Awaited(t) == CHOOSE r \in t.inflight : TRUE

Answered(t) == [t EXCEPT !.inflight = @ \ {Awaited(t)}]

(* Actions *)

execute_with_timeout(p, payload, config) ==
    /\ task[p].pc = "idle"
    /\ task' = [task EXCEPT ![p] =
                   get_job_id_send(p, [@ EXCEPT !.config = config], payload)]
    /\ UNCHANGED <<session, closed, created, closer, call, scope, conf, check>>

SubmitAnswered(p, a) ==
    /\ task[p].pc = "submit_wait"
    /\ task' = [task EXCEPT ![p] = get_job_id_recv(p, Answered(@), a)]
    /\ UNCHANGED <<session, closed, created, closer, call, scope, conf, check>>

PollAnswered(p, a) ==
    /\ task[p].pc = "poll_wait"
    /\ task' = [task EXCEPT ![p] = poll_job_status_recv(p, Answered(@), a)]
    /\ UNCHANGED <<session, closed, created, closer, call, scope, conf, check>>

\* asyncio.sleep(poll_interval) is over: the loop turns
SleepOver(p) ==
    /\ task[p].pc = "sleep"
    /\ task[p].nPoll < MaxPolls
    /\ task' = [task EXCEPT ![p] =
                   poll_job_status_send(p, [@ EXCEPT !.nSleep = @ + 1])]
    /\ UNCHANGED <<session, closed, created, closer, call, scope, conf, check>>

FetchAnswered(p, a) ==
    /\ task[p].pc = "fetch_wait"
    /\ task' = [task EXCEPT ![p] = get_http_resp_recv(p, Answered(@), a)]
    /\ UNCHANGED <<session, closed, created, closer, call, scope, conf, check>>

----------------------------------------------------------------------------
(* Client.req: the blocking request *)

Methods == {"GET", "POST", "PUT"}

\* config as prepare_config builds it: the timeout key may be absent
ReqConfigs == {[timeout |-> 1], [timeout |-> 2], [poll_interval |-> 1]}

ReqAnswers == Responses(Results) \cup Exceptions

\* req has returned v
ReqReturn(c, v, why) == [c EXCEPT !.pc = "done", !.result = v, !.cause = why]

\* req up to the blocking requests.post / requests.get
req_send(c, payload, method, config) ==
    IF method \notin {"POST", "GET"}
    THEN ReqReturn([c EXCEPT !.method = method], None, "unsupported_method")
    ELSE IF "timeout" \notin DOMAIN config
    THEN [c EXCEPT !.method = method, !.pc = "done", !.raised = "KeyError",
                   !.cause = "no_timeout"]
    ELSE [c EXCEPT !.method = method, !.pc = "wait", !.nCalls = @ + 1]

\* req decoding the body of every response that raise_for_status passes
req_recv_any_success(c, a) ==
    IF IsException(a) THEN ReqReturn(c, None, a.exc)
    ELSE IF raise_for_status(a) THEN ReqReturn(c, None, "http_status")
    ELSE IF a.json = NotJson THEN ReqReturn(c, None, "malformed")
    ELSE ReqReturn(c, a.json, "none")

\* req from the answer to its return; a body that is no JSON makes
\* response.json() raise requests' JSONDecodeError, a RequestException
req_recv(c, a) ==
    IF IsException(a) THEN ReqReturn(c, None, a.exc)
    ELSE IF raise_for_status(a) THEN ReqReturn(c, None, "http_status")
    ELSE IF a.status # 200 THEN ReqReturn(c, None, "http_status")
    ELSE IF a.json = NotJson THEN ReqReturn(c, None, "malformed")
    ELSE ReqReturn(c, a.json, "none")

req(payload, method, config) ==
    /\ call.pc = "idle"
    /\ call' = req_send(call, payload, method, config)
    /\ UNCHANGED <<session, closed, created, closer, task, scope, conf, check>>

ReqAnswered(a) ==
    /\ call.pc = "wait"
    /\ call' = req_recv([call EXCEPT !.answer = a], a)
    /\ UNCHANGED <<session, closed, created, closer, task, scope, conf, check>>

----------------------------------------------------------------------------
(* utils/utils.py: prepare_config *)

\* utils/defaults.py
DEFAULT_TIMEOUT == 50

DEFAULT_POLL_INTERVAL == 10

\* what a caller passes for a keyword: None or an integer
Values == {None} \cup {Num(n) : n \in -MaxInt..MaxInt}

\* the keyword arguments of a prepare_config call: each key named or not
Kwargs ==
    [timeout : Values, poll_interval : Values]
        \cup [timeout : Values] \cup [poll_interval : Values] \cup {EmptyDict}

Default(key) ==
    IF key = "timeout" THEN DEFAULT_TIMEOUT ELSE DEFAULT_POLL_INTERVAL

\* prepare_config(**kwargs): a key enters config only if the caller named
\* it; None is replaced by the default, any other value is kept
prepare_config(kwargs) ==
    [key \in DOMAIN kwargs \cap {"timeout", "poll_interval"} |->
        IF kwargs[key] # None THEN kwargs[key].n ELSE Default(key)]

PrepareConfig(kwargs) ==
    /\ conf' = [called |-> TRUE, kwargs |-> kwargs,
                config |-> prepare_config(kwargs)]
    /\ UNCHANGED <<session, closed, created, closer, task, call, scope, check>>

----------------------------------------------------------------------------
(* utils/utils.py: the parameter validators.  Each gives "none" when it    *)
(* returns and the message of its ValueError when it raises.               *)

\* Python truth of an optional string: None and "" are false
Truthy(x) == x # None /\ x # Str("")

\* utils/constants.py: UserAgent.is_user_agent_valid
UserAgents == {Str("desktop"), Str("mobile")}

is_user_agent_valid(user_agent_type) == user_agent_type \in UserAgents

\* utils/constants.py: Render.is_render_valid
Renders == {Str("html"), Str("png")}

is_render_valid(render) == render \in Renders

\* what callers pass
Domains == {None, Str(""), Str("com"), Str("de"), Str("not-a-real-domain")}

AcceptableSets == {{}, {Str("com")}, {Str("com"), Str("de")}}

RenderArgs == {None, Str(""), Str("html"), Str("png"), Str("not-a-mode")}

UserAgentArgs == {None, Str(""), Str("desktop"), Str("mobile"), Str("bot")}

check_user_agent_validity(user_agent_type) ==
    IF ~is_user_agent_valid(user_agent_type)
    THEN "Invalid user agent parameter" ELSE "none"

check_render_validity(render) ==
    IF Truthy(render) /\ ~is_render_valid(render)
    THEN "Invalid render parameter" ELSE "none"

\* check_domain_validity without the test that a domain was given
check_domain_validity_unguarded(domain, acceptable_domains) ==
    IF domain \notin acceptable_domains
    THEN "Invalid domain parameter" ELSE "none"

check_domain_validity(domain, acceptable_domains) ==
    IF Truthy(domain) /\ domain \notin acceptable_domains
    THEN "Invalid domain parameter" ELSE "none"

check_locale_validity(locale, acceptable_locales) ==
    IF Truthy(locale) /\ locale \notin acceptable_locales
    THEN "Invalid locale parameter" ELSE "none"

check_limit_validity(limit) ==
    IF limit <= 0 THEN "Limit parameter must be greater than 0" ELSE "none"

check_pages_validity(pages) ==
    IF pages <= 0 THEN "Pages parameter must be greater than 0" ELSE "none"

check_start_page_validity(start_page) ==
    IF start_page <= 0
    THEN "Start page parameter must be greater than 0" ELSE "none"

Checked(fn, arg, among, raised) ==
    /\ check' = [fn |-> fn, arg |-> arg, among |-> among, raised |-> raised]
    /\ UNCHANGED <<session, closed, created, closer, task, call, scope, conf>>

CheckUserAgent(u) ==
    Checked("check_user_agent_validity", u, {}, check_user_agent_validity(u))

CheckRender(r) ==
    Checked("check_render_validity", r, {}, check_render_validity(r))

CheckDomain(d, among) ==
    Checked("check_domain_validity", d, among, check_domain_validity(d, among))

CheckLocale(l, among) ==
    Checked("check_locale_validity", l, among, check_locale_validity(l, among))

CheckLimit(n) ==
    Checked("check_limit_validity", Num(n), {}, check_limit_validity(n))

CheckPages(n) ==
    Checked("check_pages_validity", Num(n), {}, check_pages_validity(n))

CheckStartPage(n) ==
    Checked("check_start_page_validity", Num(n), {},
            check_start_page_validity(n))

----------------------------------------------------------------------------
(* Specifications *)

\* the steps of task p, the caller's configs and the transport's answers
\* drawn from the given sets
TaskStep(p, configs, answers) ==
    \/ \E payload \in Payloads, config \in configs :
           execute_with_timeout(p, payload, config)
    \/ \E a \in SubmitAnswers \cap answers : SubmitAnswered(p, a)
    \/ \E a \in PollAnswers \cap answers : PollAnswered(p, a)
    \/ SleepOver(p)
    \/ \E a \in FetchAnswers \cap answers : FetchAnswered(p, a)

AllAnswers == SubmitAnswers \cup PollAnswers \cup FetchAnswers

Next ==
    \/ ensure_session
    \/ close_begin
    \/ close_end
    \/ TaskStep(1, Configs, AllAnswers)
    \/ \E payload \in Payloads, method \in Methods, config \in ReqConfigs :
           req(payload, method, config)
    \/ \E a \in ReqAnswers : ReqAnswered(a)

\* one execution, every config and every answer, beside the session life
\* cycle and a Client.req call
Spec == Init /\ [][Next]_vars

\* the answers the concurrent executions are followed under: success and
\* not found, the bodies as in AllAnswers, and a lost connection
ConcAnswers == {a \in AllAnswers : IsException(a) => a = ConnectionError}

ConcConfigs == {[timeout |-> 2, poll_interval |-> 1]}

\* the client after ensure_session, as inside "async with"
InitConc ==
    /\ session = 1
    /\ closed = {}
    /\ created = 1
    /\ closer = "idle"
    /\ task = [p \in Procs |-> NewTask]
    /\ call = NewCall
    /\ scope = NewScope
    /\ conf = NewConf
    /\ check = NewCheck

NextConc ==
    \/ close_begin
    \/ close_end
    \/ \E p \in Procs : TaskStep(p, ConcConfigs, ConcAnswers)

\* two executions running concurrently on the one client
SpecConc == InitConc /\ [][NextConc]_vars

NextScope ==
    \/ ensure_session
    \/ close_begin
    \/ close_end
    \/ aenter
    \/ \E ending \in Endings : aexit_begin(ending)
    \/ aexit_end

\* the client used in "async with", beside tasks that call ensure_session
\* and close on the same client
SpecScope == Init /\ [][NextScope]_vars

NextUtils ==
    \/ \E kwargs \in Kwargs : PrepareConfig(kwargs)
    \/ \E u \in UserAgentArgs : CheckUserAgent(u)
    \/ \E r \in RenderArgs : CheckRender(r)
    \/ \E d \in Domains, among \in AcceptableSets : CheckDomain(d, among)
    \/ \E l \in Domains, among \in AcceptableSets : CheckLocale(l, among)
    \/ \E n \in -MaxInt..MaxInt : CheckLimit(n)
    \/ \E n \in -MaxInt..MaxInt : CheckPages(n)
    \/ \E n \in -MaxInt..MaxInt : CheckStartPage(n)

\* the helpers of utils/utils.py applied to every input of the bounded sets
SpecUtils == Init /\ [][NextUtils]_vars

----------------------------------------------------------------------------
(* Properties of execute_with_timeout *)

Started(p) == task[p].pc # "idle"

Done(p) == task[p].pc = "done"

\* seconds the execution has spent asleep in its poll loop
Elapsed(p) ==
    IF task[p].nSleep = 0 THEN 0
    ELSE task[p].nSleep * task[p].config.poll_interval

\* C1: when the submit request fails (connection error, non-2xx status,
\* malformed body, timeout) the execution has failed at once and has issued
\* no poll request and no fetch request.
C1_SubmitFailureStops ==
    \A p \in Procs :
        task[p].submitted = "failed" =>
            /\ Done(p)
            /\ task[p].nPoll = 0
            /\ task[p].nFetch = 0

\* C2: when a poll response carried the status faulted, no fetch request
\* is issued for that execution.
C2_FaultedNeverFetches ==
    \A p \in Procs : task[p].pollEnd = "faulted" => task[p].nFetch = 0

\* C3: a poll that failed at transport level ends the execution: no
\* request is issued after it, neither another poll nor a fetch.
C3_FailedPollStops ==
    \A p \in Procs :
        task[p].pollEnd = "failed" =>
            /\ Done(p)
            /\ task[p].inflight = {}
            /\ task[p].nFetch = 0

\* C4: when every poll answers a non-terminal status, the execution has
\* ended with a timeout failure, without a fetch, once more than
\* config.timeout seconds have passed.
C4_TimeoutEndsExecution ==
    \A p \in Procs :
        (/\ Started(p)
         /\ "timeout" \in DOMAIN task[p].config
         /\ task[p].submitted = "ok"
         /\ task[p].pollEnd = "unset"
         /\ Elapsed(p) > task[p].config.timeout) =>
            /\ Done(p)
            /\ task[p].cause = "timeout"
            /\ task[p].nFetch = 0

\* C5: execute_with_timeout returns a result payload only if a poll of
\* the execution saw the status done; after a failed submit, a faulted
\* job, a failed poll or a failed fetch it returns no payload.
C5_PayloadOnlyAfterDone ==
    \A p \in Procs :
        (Done(p) /\ task[p].result # None) =>
            /\ task[p].submitted = "ok"
            /\ task[p].pollEnd = "done"
            /\ task[p].fetched = "ok"

\* C6: the requests of one execution go out in the order submit, polls,
\* fetch: a poll only after the submit has completed, the fetch only after
\* the last poll has completed, no poll or submit after the fetch, and
\* never two requests of the execution in flight together.
C6_PhasesInOrder ==
    [][\A p \in Procs :
          /\ Cardinality(task'[p].inflight) <= 1
          /\ \A r \in task'[p].inflight :
                /\ IsPoll(r) => task'[p].submitted # "unset"
                /\ IsFetch(r) => task'[p].pollEnd # "unset"
                /\ IsSubmit(r) => task'[p].nPoll = 0 /\ task'[p].nFetch = 0
          /\ task[p].nPoll > 0 => task'[p].nSubmit = task[p].nSubmit
          /\ task[p].nFetch > 0 =>
                /\ task'[p].nSubmit = task[p].nSubmit
                /\ task'[p].nPoll = task[p].nPoll]_vars

\* an execution with its fetch in flight after a submit and three polls
C6_Witness ==
    \E p \in Procs :
        /\ \E r \in task[p].inflight : IsFetch(r)
        /\ task[p].nSubmit = 1
        /\ task[p].nPoll = 3

\* C7: when the submit returns a job id, the first k polls answer a
\* non-terminal status, poll k+1 answers done and the fetch answers payload
\* P, the execution returns P and has issued 1 submit, k+1 polls and 1
\* fetch, with k sleeps, one before each poll but the first.
C7_PollUntilDone ==
    \A p \in Procs :
        /\ (/\ Done(p)
            /\ task[p].submitted = "ok"
            /\ task[p].pollEnd = "done"
            /\ task[p].fetched = "ok") =>
               /\ task[p].result = task[p].payload
               /\ task[p].result \in Results
               /\ task[p].nSubmit = 1
               /\ task[p].nPoll = task[p].nPending + 1
               /\ task[p].nFetch = 1
               /\ task[p].nSleep = task[p].nPending
        /\ (task[p].submitted = "ok" /\ task[p].pc = "poll_wait") =>
               task[p].nSleep = task[p].nPoll - 1

\* two pending polls, then done, then the payload {"result": 42}
C7_Witness ==
    \E p \in Procs :
        /\ Done(p)
        /\ task[p].submitted = "ok"
        /\ task[p].pollEnd = "done"
        /\ task[p].nPending = 2
        /\ task[p].nPoll = 3
        /\ task[p].result = [result |-> 42]

\* what the caller of a finished call holds: the failure behind it (history)
\* and the exception raised and the value returned (what it can inspect)
Outcomes ==
    {[cause |-> task[p].cause, raised |-> task[p].raised,
      value |-> task[p].result] :
        p \in {q \in Procs : Done(q)}}
    \cup {[cause |-> call.cause, raised |-> call.raised, value |-> call.result] :
        c \in {d \in {call} : d.pc = "done"}}

NamedFailures ==
    {"timeout", "faulted", "http_status", "connection", "unsupported_method"}

\* C8: a failure of execute_with_timeout or of Client.req reaches the
\* caller as a distinct, inspectable failure: a timeout, a faulted job, a
\* non-success HTTP status, a connection error and an unsupported method
\* give pairwise different outcomes, none of them the bare None.
C8_FailuresDistinct ==
    /\ \A o \in Outcomes :
          o.cause \in NamedFailures => ~(o.raised = "none" /\ o.value = None)
    /\ \A o1, o2 \in Outcomes :
          (/\ o1.cause \in NamedFailures
           /\ o2.cause \in NamedFailures
           /\ o1.cause # o2.cause) =>
              <<o1.raised, o1.value>> # <<o2.raised, o2.value>>

\* C9: within one execution, whatever the transport answers, the submit
\* request is issued exactly once and the fetch request at most once.
C9_NoRetry ==
    \A p \in Procs :
        /\ task[p].nSubmit <= 1
        /\ task[p].nFetch <= 1
        /\ (Started(p) /\ task[p].submitted # "unsent") => task[p].nSubmit = 1

\* an execution that ended after a failed submit and a failed fetch
C9_Witness ==
    \E p \in Procs :
        /\ Done(p)
        /\ task[p].submitted = "failed"
        /\ task[p].fetched = "failed"
        /\ task[p].nSubmit = 1
        /\ task[p].nFetch = 1

----------------------------------------------------------------------------
(* Properties of concurrent executions *)

\* every poll and fetch request of an execution names the job id that the
\* answer to its own submit carried
OwnRequests ==
    \A p \in Procs :
        \A r \in task[p].inflight :
            (IsPoll(r) \/ IsFetch(r)) => r.url[2] = format(task[p].handle)

\* what an execution has issued and returned follows from its own answers
OwnOutcome ==
    \A p \in Procs :
        /\ task[p].job_id = task[p].handle
        /\ task[p].nSubmit = IF task[p].submitted = "unsent" \/ ~Started(p)
                             THEN 0 ELSE 1
        /\ task[p].nPoll = task[p].nPending
                           + (IF task[p].pc = "poll_wait" THEN 1 ELSE 0)
                           + (IF task[p].pollEnd \in {"done", "faulted", "failed"}
                              THEN 1 ELSE 0)
        /\ task[p].nFetch = IF task[p].pc = "fetch_wait"
                               \/ task[p].fetched \in {"ok", "failed"}
                            THEN 1 ELSE 0
        /\ Done(p) => task[p].result =
                         IF task[p].fetched = "ok" THEN task[p].payload ELSE None

\* C10: two executions running concurrently on one client are independent
\* under every interleaving: the polls and the fetch of an execution carry
\* the job id its own submit returned, a step of one execution changes
\* nothing of the other, and what an execution issues and returns is what
\* its own answers determine.
C10_Independent ==
    [][/\ OwnRequests'
       /\ OwnOutcome'
       /\ \A p, q \in Procs :
             (p # q /\ task'[q] # task[q]) => task'[p] = task[p]]_vars

\* both executions polling, each for its own job
C10_Witness ==
    /\ task[1].pc = "poll_wait"
    /\ task[2].pc = "poll_wait"
    /\ task[1].handle = Str("abc")
    /\ task[2].handle = Str("xyz")
    /\ task[1].nPoll = 2

----------------------------------------------------------------------------
(* Properties of prepare_config *)

\* the caller overrides key: it names it with a value other than None
Overrides(kwargs, key) == key \in DOMAIN kwargs /\ kwargs[key] # None

\* C11: prepare_config called with no overrides returns a configuration
\* holding the default timeout and the default poll interval; called with
\* only timeout = T it returns timeout = T and the default poll interval.
C11_DefaultsFilled ==
    conf.called =>
        \A key \in {"timeout", "poll_interval"} :
            /\ key \in DOMAIN conf.config
            /\ conf.config[key] = IF Overrides(conf.kwargs, key)
                                  THEN conf.kwargs[key].n ELSE Default(key)

\* C12: for any timeout and poll_interval values the caller supplies, the
\* configuration prepare_config returns has a strictly positive timeout
\* and a strictly positive poll interval.
C12_DurationsPositive ==
    (/\ conf.called
     /\ "timeout" \in DOMAIN conf.kwargs
     /\ "poll_interval" \in DOMAIN conf.kwargs) =>
        /\ conf.config["timeout"] > 0
        /\ conf.config["poll_interval"] > 0

----------------------------------------------------------------------------
(* Properties of the parameter validators *)

\* the message a validator raises names the field it checks
NamesField(fn, msg) ==
    \/ fn = "check_user_agent_validity" /\ msg = "Invalid user agent parameter"
    \/ fn = "check_render_validity" /\ msg = "Invalid render parameter"
    \/ fn = "check_domain_validity" /\ msg = "Invalid domain parameter"
    \/ fn = "check_locale_validity" /\ msg = "Invalid locale parameter"
    \/ fn = "check_limit_validity"
       /\ msg = "Limit parameter must be greater than 0"
    \/ fn = "check_pages_validity"
       /\ msg = "Pages parameter must be greater than 0"
    \/ fn = "check_start_page_validity"
       /\ msg = "Start page parameter must be greater than 0"

Rejected == check.raised # "none"

NumberChecks ==
    {"check_limit_validity", "check_pages_validity", "check_start_page_validity"}

SetChecks == {"check_domain_validity", "check_locale_validity"}

\* what every reading of C15 shares: an error names its field, the number
\* checks raise exactly for a value <= 0, the user agent check raises
\* exactly for an unknown type
ValidatorsCommon ==
    /\ Rejected => NamesField(check.fn, check.raised)
    /\ check.fn \in NumberChecks => (Rejected <=> check.arg.n <= 0)
    /\ check.fn = "check_user_agent_validity" =>
           (Rejected <=> check.arg \notin UserAgents)

\* C15 as stated: check_domain_validity and check_locale_validity raise
\* when the value is not in the acceptable set, check_render_validity when
\* it is not a known mode.
C15_ValidatorsAsStated ==
    /\ ValidatorsCommon
    /\ check.fn \in SetChecks => (Rejected <=> check.arg \notin check.among)
    /\ check.fn = "check_render_validity" =>
           (Rejected <=> check.arg \notin Renders)

\* C15 (amended): each validator raises an error naming its field exactly
\* for the invalid values: limit, pages and start page when the value is
\* <= 0; domain and locale when a value is given (not None, not empty)
\* and is not in the acceptable set; render when a value is given and is no
\* known mode; user agent when the value is no known type.
C15_Validators ==
    /\ ValidatorsCommon
    /\ check.fn \in SetChecks =>
           (Rejected <=> (Truthy(check.arg) /\ check.arg \notin check.among))
    /\ check.fn = "check_render_validity" =>
           (Rejected <=> (Truthy(check.arg) /\ check.arg \notin Renders))

\* check_domain_validity has raised for a domain that was given and is not
\* in the acceptable set
C15_Witness ==
    /\ check.fn = "check_domain_validity"
    /\ check.arg = Str("not-a-real-domain")
    /\ check.among = {Str("com"), Str("de")}
    /\ check.raised = "Invalid domain parameter"

----------------------------------------------------------------------------
(* Properties of the scoped client *)

\* C13: when __aexit__ returns, however the body was left (success,
\* failure, cancellation), the session the client held when __aenter__
\* returned is closed and the client holds no session; stated for a scope
\* that was not entered while a close() of another task was in flight.
C13_ScopeReleases ==
    [][(scope.pc # "closed" /\ scope'.pc = "closed" /\ ~scope.racing) =>
           /\ scope'.ended \in Endings
           /\ scope'.opened \in closed'
           /\ session' = 0]_vars

\* __aexit__ has returned after a cancelled body, a session had been
\* opened by __aenter__
C13_Witness ==
    /\ scope.pc = "closed"
    /\ ~scope.racing
    /\ scope.ended = "cancelled"
    /\ scope.opened # 0
    /\ scope.opened \in closed
    /\ session = 0

----------------------------------------------------------------------------
(* Properties of the session life cycle *)

\* C16: under any interleaving of ensure_session and close, every session
\* that was created is either closed or the one client.session refers to.
C16_NoOrphanSession ==
    \A s \in 1..created : s \in closed \/ s = session

----------------------------------------------------------------------------
(* Properties of Client.req *)

ReqDone == call.pc = "done"

\* the status of the response req received, 0 when it received none
ReqStatus ==
    IF call.answer = None \/ IsException(call.answer)
    THEN 0 ELSE call.answer.status

\* req was called with GET or POST and a config that carries a timeout
ReqSupported == call.method \in {"GET", "POST"} /\ call.cause # "no_timeout"

\* C14: req called with a method other than GET or POST fails with an
\* UnsupportedMethod error and makes no transport call.
C14_UnsupportedMethodFails ==
    (ReqDone /\ call.method \notin {"GET", "POST"}) =>
        /\ call.nCalls = 0
        /\ call.raised = "UnsupportedMethod"

\* C18 as stated: req with GET or POST and a timeout in config makes exactly
\* one transport call, returns the decoded body if and only if the status
\* is 200, returns None otherwise, and never raises.
C18_BodyIffStatus200 ==
    (ReqDone /\ ReqSupported) =>
        /\ call.nCalls = 1
        /\ call.raised = "none"
        /\ call.result # None <=> ReqStatus = 200
        /\ call.result # None => call.result = call.answer.json

\* C18 (amended): req with GET or POST and a timeout in config makes exactly
\* one transport call and never raises; it returns the decoded body if and
\* only if the status is 200 and the body decodes as JSON; for every other
\* outcome (another status, other 2xx included, a 200 whose body is not
\* JSON, a timeout, a connection error) it returns None.
C18_ReqOutcome ==
    (ReqDone /\ ReqSupported) =>
        /\ call.nCalls = 1
        /\ call.raised = "none"
        /\ call.result # None <=>
               (ReqStatus = 200 /\ call.answer.json # NotJson)
        /\ call.result # None => call.result = call.answer.json

\* req has returned None for a 2xx response other than 200 that carried a
\* JSON body
C18_Witness ==
    /\ ReqDone
    /\ ReqSupported
    /\ ReqStatus = 201
    /\ call.answer.json \in Results
    /\ call.nCalls = 1
    /\ call.result = None

----------------------------------------------------------------------------
(* Properties of the workflow on a client without a session *)

\* C17: execute_with_timeout called on a client that holds no usable
\* session (never opened, or closed) sends no request in any of the three
\* phases and returns None without raising; stated for a config that
\* carries poll_interval, which execute_with_timeout reads.
C17_NoSessionNoRequest ==
    \A p \in Procs :
        (/\ Done(p)
         /\ task[p].submitted = "unsent"
         /\ "poll_interval" \in DOMAIN task[p].config) =>
            /\ task[p].nSubmit = 0
            /\ task[p].nPoll = 0
            /\ task[p].nFetch = 0
            /\ task[p].inflight = {}
            /\ task[p].result = None
            /\ task[p].raised = "none"

\* an execution on a client that never opened a session has returned
C17_Witness ==
    /\ session = 0
    /\ created = 0
    /\ Done(1)
    /\ task[1].submitted = "unsent"
    /\ task[1].pollEnd = "unsent"
    /\ task[1].fetched = "unsent"
    /\ "poll_interval" \in DOMAIN task[1].config
    /\ task[1].result = None

====
